---- MODULE Spec2Model ----
(***************************************************************************)
(* Model of the memory layer of Fin_agent: MemoryManager                   *)
(* (memory/memory_manager.py) and UserProfileStore                         *)
(* (memory/user_profile_store.py) over a namespaced vector index, and the  *)
(* login helpers of chatbot_ui.py.                                         *)
(*                                                                         *)
(* Python values: a str is a string and an absent str is NONE; a dict is a *)
(* function over its keys, and a dict that is None or empty (the code      *)
(* treats the two alike: `metadata or {}`, `if updates:`) is the empty     *)
(* function; an optional object is the set of at most one record; a list   *)
(* is a sequence.  A collaborator that can raise or fail (index call,      *)
(* embedding, summarizer) takes its outcome as a parameter of the          *)
(* operation and the actions quantify over the outcomes.                   *)
(* Timestamps are left out of the stored metadata: nothing reads them.     *)
(***************************************************************************)
EXTENDS Integers, Sequences, FiniteSets, TLC

VARIABLES
    index,           \* whether retrieval.pinecone_client imported (index is not None)
    active_context,  \* MemoryManager._active_context: user id -> list of turns
    memory_store,    \* vectors of namespace "memory_store"
    user_profiles,   \* vectors of namespace "user_profiles"
    last,            \* the last operation: its name, arguments, result, index calls
    running,         \* the process_realtime_interaction calls in progress
    session          \* st.session_state of each session of the UI

vars == <<index, active_context, memory_store, user_profiles, last, running, session>>

NONE == "None"

----------------------------------------------------------------------------
(* Bounds and input domains *)

\* the most vectors the memory namespace holds in a run
MaxVectors == 2
\* the longest list of add_memory calls whose outcomes vary independently
MaxMixed == 4
\* the most pairs of overlapping process_realtime_interaction calls in a run
MaxRaces == 1

Users == {"alice_01", "bob_02"}

NAMESPACE == "memory_store"
PROFILE_NAMESPACE == "user_profiles"

FACT == "fact"
EPISODIC == "episodic"
MemoryType == {FACT, EPISODIC}

RiskTolerance == {"low", "medium", "high"}
ExplanationDepth == {"simple", "detailed", "technical"}
StylePreference == {"formal", "casual", "concise"}

ProfileFields == {"risk_tolerance", "explanation_depth", "style_preference"}

UserProfileSchema(u, r, d, s) ==
    [user_id |-> u, risk_tolerance |-> r, explanation_depth |-> d,
     style_preference |-> s]

\* UserProfileSchema(user_id=u): every other field at its default
DefaultProfile(u) == UserProfileSchema(u, "medium", "detailed", "formal")

----------------------------------------------------------------------------
(* JSON conversions *)

\* profile.model_dump(): the dict of the fields
model_dump(p) == p

\* profile.model_dump_json(): the JSON text, as its sequence of key/value pairs
model_dump_json(p) ==
    << <<"user_id", p.user_id>>, <<"risk_tolerance", p.risk_tolerance>>,
       <<"explanation_depth", p.explanation_depth>>,
       <<"style_preference", p.style_preference>> >>

\* json.dumps(dict): the JSON text of a flat dict, keys in a fixed order
RECURSIVE DumpKeys(_, _)
DumpKeys(d, keys) ==
    IF keys = {} THEN << >>
    ELSE LET k == CHOOSE x \in keys : \A y \in keys : Len(x) <= Len(y)
         IN  << <<k, d[k]>> >> \o DumpKeys(d, keys \ {k})

json_dumps(d) == DumpKeys(d, DOMAIN d)

\* safe_json_load(text): the dict a JSON text denotes
safe_json_load(text) ==
    [k \in {text[i][1] : i \in 1..Len(text)} |->
        LET i == CHOOSE j \in 1..Len(text) : text[j][1] = k IN text[i][2]]

\* a dict is truthy when it is not None and not empty
Truthy(d) == DOMAIN d # {}

\* UserProfileSchema.model_validate(data)
model_validate(data) ==
    UserProfileSchema(data["user_id"], data["risk_tolerance"],
                      data["explanation_depth"], data["style_preference"])

----------------------------------------------------------------------------
(* The vector index: upsert, fetch, delete, query on one namespace *)

IndexUpsert(store, vec) == {v \in store : v.id # vec.id} \cup {vec}

IndexFetch(store, ids) == {v \in store : v.id \in ids}

IndexDeleteIds(store, ids) == {v \in store : v.id \notin ids}

\* a metadata filter {key: value} or {key: {"$eq": value}}: every key present and equal
Matches(meta, filter) ==
    \A k \in DOMAIN filter : k \in DOMAIN meta /\ meta[k] = filter[k]

IndexDeleteFilter(store, filter) == {v \in store : ~Matches(v.metadata, filter)}

\* get_embedding(text): the vector of a text
get_embedding(text) == <<"vec", text>>

\* similarity score of two vectors, in hundredths: 100 for equal vectors
Score(qv, v) ==
    IF qv = v THEN 100
    ELSE ((Len(qv[2]) * 7 + Len(v[2]) * 13) % 120) - 20

\* the matches of a query, best score first
RECURSIVE Ranked(_, _)
Ranked(cands, qv) ==
    IF cands = {} THEN << >>
    ELSE LET best == CHOOSE v \in cands : \A w \in cands :
                         Score(qv, v.values) >= Score(qv, w.values)
         IN  << [id |-> best.id, score |-> Score(qv, best.values),
                 metadata |-> best.metadata] >>
             \o Ranked(cands \ {best}, qv)

IndexQuery(store, qv, top_k, filter) ==
    LET all == Ranked({v \in store : Matches(v.metadata, filter)}, qv)
    IN  SubSeq(all, 1, IF Len(all) < top_k THEN Len(all) ELSE top_k)

\* one index call, as the last operation records it: upsert or delete, the
\* namespace, the id upserted or the ids or filter deleted, and whether it returned
Call(fn, ns, key, ok) == [fn |-> fn, ns |-> ns, key |-> key, ok |-> ok]

----------------------------------------------------------------------------
(* UserProfileStore *)

\* _parse_fetch_response(response, user_id): the vector stored under user_id
\* ({} for None)
parse_fetch_response(response, user_id) == {v \in response : v.id = user_id}

\* check_user_status(user_id); fetchOk: index.fetch returns (does not raise)
check_user_status(user_id, fetchOk) ==
    IF ~index THEN "new"
    ELSE IF ~fetchOk THEN "new"
    ELSE LET vector_data ==
                 parse_fetch_response(IndexFetch(user_profiles, {user_id}), user_id)
         IN  IF vector_data # {} THEN "old" ELSE "new"

\* get_profile that never finds the stored profile data
get_profile_in_default(profiles, user_id, fetchOk) == DefaultProfile(user_id)

\* get_profile(user_id) on the profile namespace `profiles`
get_profile_in(profiles, user_id, fetchOk) ==
    IF ~index THEN DefaultProfile(user_id)
    ELSE IF ~fetchOk THEN DefaultProfile(user_id)
    ELSE LET vector_data ==
                 parse_fetch_response(IndexFetch(profiles, {user_id}), user_id)
         IN  IF vector_data # {}
             THEN LET meta == (CHOOSE v \in vector_data : TRUE).metadata
                      data == safe_json_load(meta.profile_data)
                  IN  IF Truthy(data) THEN model_validate(data)
                      ELSE DefaultProfile(user_id)
             ELSE DefaultProfile(user_id)

get_profile(user_id, fetchOk) == get_profile_in(user_profiles, user_id, fetchOk)

\* the placeholder vector of a profile record: first component forced to 1.0
Placeholder == <<1, 0>>

\* update_profile(profile); upsertOk: index.upsert returns (does not raise).
\* The result is the profile namespace afterwards and the index calls issued.
update_profile(profiles, profile, upsertOk) ==
    IF ~index THEN [profiles |-> profiles, calls |-> << >>]
    ELSE LET vec == [id |-> profile.user_id,
                     values |-> Placeholder,
                     metadata |-> [profile_data |-> model_dump_json(profile),
                                   type |-> "user_profile"]]
         IN  [profiles |-> IF upsertOk THEN IndexUpsert(profiles, vec) ELSE profiles,
              calls |-> << Call("upsert", PROFILE_NAMESPACE, profile.user_id, upsertOk) >>]

\* sync_if_changed that writes without comparing
sync_if_changed_always(profiles, old_profile, current_profile, upsertOk) ==
    LET w == update_profile(profiles, current_profile, upsertOk)
    IN  [profiles |-> w.profiles, calls |-> w.calls, ret |-> TRUE]

\* sync_if_changed(old_profile, current_profile)
sync_if_changed(profiles, old_profile, current_profile, upsertOk) ==
    IF model_dump(old_profile) # model_dump(current_profile)
    THEN LET w == update_profile(profiles, current_profile, upsertOk)
         IN  [profiles |-> w.profiles, calls |-> w.calls, ret |-> TRUE]
    ELSE [profiles |-> profiles, calls |-> << >>, ret |-> FALSE]

\* delete_profile that issues the deletion in the memory namespace
delete_profile_wrong_namespace(profiles, user_id, deleteOk) ==
    IF ~index THEN [profiles |-> profiles, calls |-> << >>]
    ELSE [profiles |-> profiles,
          calls |-> << Call("delete", NAMESPACE, {user_id}, deleteOk) >>]

\* delete_profile(user_id); deleteOk: index.delete returns (does not raise)
delete_profile(profiles, user_id, deleteOk) ==
    IF ~index THEN [profiles |-> profiles, calls |-> << >>]
    ELSE [profiles |-> IF deleteOk THEN IndexDeleteIds(profiles, {user_id})
                       ELSE profiles,
          calls |-> << Call("delete", PROFILE_NAMESPACE, {user_id}, deleteOk) >>]

----------------------------------------------------------------------------
(* Collaborators of MemoryManager *)

\* ChatSummarizer.analyze_interaction_delta: the partial field updates it can return
\* (none, or a dict of changed fields)
Deltas ==
    {<< >>, [risk_tolerance |-> "low"], [style_preference |-> "casual"],
     [risk_tolerance |-> "high", explanation_depth |-> "technical"]}

\* the outcomes of the profile-delta block: the summarizer raises; it returns no
\* updates; it returns updates and the upsert of the changed profile works or raises
DeltaOutcomes(deltas) ==
    {[analyzeOk |-> FALSE, updates |-> << >>, upsertOk |-> TRUE]}
    \cup {[analyzeOk |-> TRUE, updates |-> d, upsertOk |-> TRUE] : d \in deltas}
    \cup {[analyzeOk |-> TRUE, updates |-> d, upsertOk |-> FALSE] :
              d \in {x \in deltas : Truthy(x)}}

\* "STRICT 25-FACT LIMIT" of consolidate_session
FactLimit == 25

\* ChatSummarizer.summarize(history).key_facts: the facts of a conversation; a
\* long session yields one fact more than the limit
key_facts(history) ==
    IF history = <<"be brief">> THEN <<"likes concise answers">>
    ELSE IF history = <<"long session">>
         THEN [i \in 1..(FactLimit + 1) |-> "fact " \o ToString(i)]
    ELSE IF history = <<"be brief", "index funds only">>
         THEN <<"likes concise answers", "holds index funds">>
    ELSE << >>

\* the list without its repeated entries, first occurrences kept
Unique(list) ==
    LET IsFirst(i) == \A j \in 1..(i - 1) : list[j] # list[i]
        kept == SelectSeq([i \in 1..Len(list) |-> i], IsFirst)
    IN  [k \in 1..Len(kept) |-> list[kept[k]]]

\* ChatSummarizer.deduplicate_facts(existing, candidates): the merged list
deduplicate_facts(existing, candidates) == Unique(existing \o candidates)

----------------------------------------------------------------------------
(* MemoryManager *)

\* program constants
BufferCap == 20
ArchiveThreshold == 50
DefaultWindow == 4
DefaultLimit == 5
DefaultScoreThreshold == 70
ConsolidateLimit == 50

\* list[-n:] of Python: the last n entries; the whole list for n = 0 or n >= len
LastN(list, n) ==
    IF n = 0 \/ n >= Len(list) THEN list
    ELSE SubSeq(list, Len(list) - n + 1, Len(list))

Turn(role, content) == [role |-> role, content |-> content]

\* the buffer of a user: _active_context.get(user_id, [])
History(ctx, user_id) == IF user_id \in DOMAIN ctx THEN ctx[user_id] ELSE << >>

\* "\n".join(lines)
RECURSIVE Join(_)
Join(lines) ==
    IF lines = << >> THEN ""
    ELSE IF Len(lines) = 1 THEN lines[1]
    ELSE lines[1] \o "\n" \o Join(Tail(lines))

get_immediate_context(ctx, user_id, window_size) ==
    LET history == History(ctx, user_id)
        recent_turns == LastN(history, window_size)
    IN  IF history = << >> THEN ""
        ELSE Join([i \in 1..Len(recent_turns) |->
                      (IF recent_turns[i].role = "user" THEN "User" ELSE "Agent")
                      \o ": " \o recent_turns[i].content])

\* del self._active_context[user_id], when present
DropContext(ctx, user_id) == [u \in DOMAIN ctx \ {user_id} |-> ctx[u]]

\* the append that keeps the first 20 entries instead of the last
AppendTurns_keep_first(ctx, user_id, user_msg, agent_msg) ==
    LET grown == History(ctx, user_id)
                     \o << Turn("user", user_msg), Turn("agent", agent_msg) >>
        kept == IF Len(grown) > BufferCap THEN SubSeq(grown, 1, BufferCap) ELSE grown
    IN  [u \in DOMAIN ctx \cup {user_id} |-> IF u = user_id THEN kept ELSE ctx[u]]

\* step 1 of process_realtime_interaction: append both turns, keep the last 20
AppendTurns(ctx, user_id, user_msg, agent_msg) ==
    LET grown == History(ctx, user_id)
                     \o << Turn("user", user_msg), Turn("agent", agent_msg) >>
        kept == IF Len(grown) > BufferCap THEN LastN(grown, BufferCap) ELSE grown
    IN  [u \in DOMAIN ctx \cup {user_id} |-> IF u = user_id THEN kept ELSE ctx[u]]

\* str(uuid.uuid4()): an id no stored vector has.  The id chosen names the
\* metadata it is stored with and counts the vectors that already carry it, so
\* that two stores with the same contents are the same state.
FreshId(store, meta) ==
    LET same == {v \in store : v.metadata = meta}
        n == CHOOSE i \in 1..(Cardinality(same) + 1) :
                 \A v \in same : v.id # json_dumps(meta) \o << <<"copy", i>> >>
    IN  json_dumps(meta) \o << <<"copy", n>> >>

\* the outcomes of one add_memory call: stored; get_embedding gave nothing or
\* raised; index.upsert raised
AddOutcomes == {"ok", "embed_fail", "upsert_fail"}

\* the try block of add_memory: embed the content, build the metadata (user_id
\* lifted to the top level), upsert under a fresh id
embed_and_upsert(store, content, memory_type, safe_meta, outcome) ==
    IF outcome = "embed_fail"
    THEN [store |-> store, ret |-> NONE, calls |-> << >>]
    ELSE LET pinecone_meta ==
                 [text |-> content, type |-> memory_type,
                  attributes_json |-> json_dumps(safe_meta)]
                 @@ (IF "user_id" \in DOMAIN safe_meta
                     THEN "user_id" :> safe_meta["user_id"] ELSE << >>)
             mem_id == FreshId(store, pinecone_meta)
             vec == [id |-> mem_id, values |-> get_embedding(content),
                     metadata |-> pinecone_meta]
         IN  IF outcome = "upsert_fail"
             THEN [store |-> store, ret |-> NONE,
                   calls |-> << Call("upsert", NAMESPACE, mem_id, FALSE) >>]
             ELSE [store |-> IndexUpsert(store, vec), ret |-> mem_id,
                   calls |-> << Call("upsert", NAMESPACE, mem_id, TRUE) >>]

\* retrieve_relevant below is given with its user filter; this is the query
\* filter without it
unscoped_filter(user_id, memory_type) ==
    IF memory_type # NONE THEN "type" :> memory_type ELSE << >>

\* filter_dict = {"user_id": user_id}, plus the type when one is asked for
scoped_filter(user_id, memory_type) ==
    ("user_id" :> user_id)
    @@ (IF memory_type # NONE THEN "type" :> memory_type ELSE << >>)

\* add_memory without its isolation check
add_memory_unchecked(store, content, memory_type, metadata, outcome) ==
    IF ~index \/ content = ""
    THEN [store |-> store, ret |-> NONE, calls |-> << >>]
    ELSE embed_and_upsert(store, content, memory_type, metadata, outcome)

\* add_memory(content, memory_type, metadata): the memory namespace afterwards,
\* the returned id (or None) and the index calls issued
add_memory(store, content, memory_type, metadata, outcome) ==
    LET safe_meta == metadata
        rejected == [store |-> store, ret |-> NONE, calls |-> << >>]
    IN  IF ~index \/ content = "" THEN rejected
        ELSE IF memory_type \in {FACT, EPISODIC} /\ "user_id" \notin DOMAIN safe_meta
             THEN rejected
        ELSE embed_and_upsert(store, content, memory_type, safe_meta, outcome)

MemoryItem(id, content, memory_type, metadata) ==
    [id |-> id, content |-> content, memory_type |-> memory_type,
     metadata |-> metadata]

\* the outcomes of one retrieval: answered; or get_embedding gave nothing or
\* raised, or index.query raised (each ends in the empty list)
QueryOutcomes == {"ok", "fail"}

\* retrieve_relevant(query, user_id, limit, memory_type, score_threshold)
retrieve_relevant(store, query, user_id, limit, memory_type, score_threshold, outcome) ==
    IF ~index \/ query = "" THEN << >>
    ELSE IF outcome # "ok" THEN << >>
    ELSE LET filter_dict == scoped_filter(user_id, memory_type)
             matches == IndexQuery(store, get_embedding(query), limit, filter_dict)
             kept == SelectSeq(matches, LAMBDA m : ~(m.score < score_threshold))
         IN  [i \in 1..Len(kept) |->
                 LET meta == kept[i].metadata
                     loaded == safe_json_load(meta.attributes_json)
                 IN  MemoryItem(kept[i].id, meta.text, meta.type,
                                IF Truthy(loaded) THEN loaded ELSE << >>)]

\* updated_data = original_dump.copy(); updated_data.update(updates)
Updated(dump, updates) ==
    [k \in DOMAIN dump |-> IF k \in DOMAIN updates THEN updates[k] ELSE dump[k]]

\* the profile-delta block shared by check_and_update_profile_pre_planning and
\* process_realtime_interaction: get_profile, analyze_interaction_delta, sync.
\* analyzeOk: the summarizer returns `updates` (does not raise)
profile_delta(profiles, user_id, fetchOk, analyzeOk, updates, upsertOk) ==
    LET current_profile == get_profile_in(profiles, user_id, fetchOk)
        original_dump == model_dump(current_profile)
    IN  IF ~analyzeOk
        THEN [profiles |-> profiles, calls |-> << >>, changed |-> FALSE, raised |-> TRUE]
        ELSE IF Truthy(updates)
        THEN LET new_profile == model_validate(Updated(original_dump, updates))
                 w == sync_if_changed(profiles, current_profile, new_profile, upsertOk)
             IN  [profiles |-> w.profiles, calls |-> w.calls, changed |-> w.ret,
                  raised |-> FALSE]
        ELSE [profiles |-> profiles, calls |-> << >>, changed |-> FALSE, raised |-> FALSE]

\* process_realtime_interaction(user_id, user_msg, agent_msg); o: the outcomes of
\* the collaborators (fetchOk, analyzeOk, updates, upsertOk, addOutcome)
process_realtime_interaction(ctx, profiles, store, user_id, user_msg, agent_msg, o) ==
    IF user_msg = "" \/ agent_msg = ""
    THEN [ctx |-> ctx, profiles |-> profiles, store |-> store, calls |-> << >>]
    ELSE LET ctx1 == AppendTurns(ctx, user_id, user_msg, agent_msg)
             d == profile_delta(profiles, user_id, o.fetchOk, o.analyzeOk, o.updates,
                                o.upsertOk)
             a == IF ~d.raised /\ Len(user_msg) + Len(agent_msg) > ArchiveThreshold
                  THEN add_memory(store,
                                  "User: " \o user_msg \o "\nAgent: " \o agent_msg,
                                  EPISODIC, [user_id |-> user_id], o.addOutcome)
                  ELSE [store |-> store, ret |-> NONE, calls |-> << >>]
         IN  [ctx |-> ctx1, profiles |-> d.profiles, store |-> a.store,
              calls |-> d.calls \o a.calls]

\* check_and_update_profile_pre_planning(user_id, user_query)
check_and_update_profile_pre_planning(profiles, user_id, user_query, o) ==
    IF user_query = ""
    THEN [profiles |-> profiles, calls |-> << >>]
    ELSE LET d == profile_delta(profiles, user_id, o.fetchOk, o.analyzeOk, o.updates,
                                o.upsertOk)
         IN  [profiles |-> d.profiles, calls |-> d.calls]

\* a deletion filter that names nobody
any_user_filter(user_id) ==
    << >>

\* a deletion filter that names the user alone
user_filter(user_id) ==
    [user_id |-> user_id]

\* the chat-history filter without its type condition
episodic_filter_any_type(user_id) ==
    [user_id |-> user_id]

\* filter={"user_id": {"$eq": user_id}, "type": {"$eq": "episodic"}}
episodic_filter(user_id) ==
    [user_id |-> user_id, type |-> EPISODIC]

\* clear_chat_history(user_id); deleteOk: index.delete returns (does not raise)
clear_chat_history(ctx, store, user_id, deleteOk) ==
    LET ctx1 == DropContext(ctx, user_id)
        filter == episodic_filter(user_id)
    IN  IF ~index
        THEN [ctx |-> ctx1, store |-> store, ret |-> FALSE, calls |-> << >>]
        ELSE IF deleteOk
        THEN [ctx |-> ctx1, store |-> IndexDeleteFilter(store, filter),
              ret |-> TRUE, calls |-> << Call("delete", NAMESPACE, filter, TRUE) >>]
        ELSE [ctx |-> ctx1, store |-> store, ret |-> FALSE,
              calls |-> << Call("delete", NAMESPACE, filter, FALSE) >>]

\* reset_memory(user_id); memDeleteOk, profDeleteOk: the two index.delete calls
\* return (do not raise).  clear_cache() holds no state of this model.
reset_memory(ctx, profiles, store, user_id, memDeleteOk, profDeleteOk) ==
    LET ctx1 == DropContext(ctx, user_id)
        m == IF ~index
             THEN [store |-> store, success |-> TRUE, calls |-> << >>]
             ELSE IF memDeleteOk
             THEN [store |-> IndexDeleteFilter(store, user_filter(user_id)),
                   success |-> TRUE,
                   calls |-> << Call("delete", NAMESPACE, user_filter(user_id), TRUE) >>]
             ELSE [store |-> store, success |-> FALSE,
                   calls |-> << Call("delete", NAMESPACE, user_filter(user_id), FALSE) >>]
        p == delete_profile(profiles, user_id, profDeleteOk)
    IN  [ctx |-> ctx1, profiles |-> p.profiles, store |-> m.store,
         ret |-> m.success, calls |-> m.calls \o p.calls]

\* for fact in final_facts: add_memory(fact, FACT, {"user_id": user_id}), for the
\* facts lo..hi of the list in order (the first half, then the second on the
\* store the first half left)
RECURSIVE AddFacts(_, _, _, _, _, _)
AddFacts(store, final_facts, user_id, outcomes, lo, hi) ==
    IF lo > hi THEN [store |-> store, calls |-> << >>]
    ELSE IF lo = hi
    THEN LET a == add_memory(store, final_facts[lo], FACT, [user_id |-> user_id],
                             outcomes[lo])
         IN  [store |-> a.store, calls |-> a.calls]
    ELSE LET mid == (lo + hi) \div 2
         IN  CHOOSE r \in
                 {[store |-> rest.store, calls |-> first.calls \o rest.calls] :
                      <<first, rest>> \in
                          {<<f, AddFacts(f.store, final_facts, user_id, outcomes,
                                         mid + 1, hi)>> :
                               f \in {AddFacts(store, final_facts, user_id, outcomes,
                                               lo, mid)}}} : TRUE

\* existing_texts of consolidate_session: the contents of the facts it retrieves
existing_texts_of(store, user_id, queryOutcome) ==
    LET existing_memories ==
            retrieve_relevant(store, "general user facts", user_id, ConsolidateLimit,
                              FACT, 0, queryOutcome)
    IN  [i \in 1..Len(existing_memories) |-> existing_memories[i].content]

\* the final list consolidate_session computes: the existing facts it retrieves,
\* merged with the candidates
final_facts_of(store, user_id, conversation_history, queryOutcome) ==
    deduplicate_facts(existing_texts_of(store, user_id, queryOutcome),
                      key_facts(conversation_history))

\* the exceptions that end consolidate_session: none; summarize raises;
\* deduplicate_facts raises; index.delete raises
ConsolidateFailures == {"none", "summarize", "dedup", "delete"}

\* consolidate_session that inserts the final list without deleting the old facts
consolidate_session_no_delete(store, user_id, conversation_history, o) ==
    LET final_facts ==
            final_facts_of(store, user_id, conversation_history, o.queryOutcome)
        added == AddFacts(store, final_facts, user_id, o.outcomes, 1, Len(final_facts))
    IN  IF conversation_history = << >> \/ key_facts(conversation_history) = << >>
           \/ o.failure # "none" \/ ~index
        THEN [store |-> store, calls |-> << >>, stage |-> "skipped", final |-> << >>,
              existing |-> << >>]
        ELSE [store |-> added.store,
              calls |-> << Call("delete", NAMESPACE,
                                [user_id |-> user_id, type |-> FACT], TRUE) >>
                        \o added.calls,
              stage |-> "replaced", final |-> final_facts,
              existing |-> existing_texts_of(store, user_id, o.queryOutcome)]

\* consolidate_session(user_id, conversation_history).  o.failure: the exception
\* that ends it; o.queryOutcome: the retrieval of the existing facts;
\* o.outcomes[i]: the i-th add_memory.
\* stage: how far the call got ("skipped": returned before the replace step,
\* "failed": an exception ended it, "replaced": it deleted and re-inserted)
consolidate_session(store, user_id, conversation_history, o) ==
    LET skipped == [store |-> store, calls |-> << >>, stage |-> "skipped",
                    final |-> << >>, existing |-> << >>]
        existing_texts == existing_texts_of(store, user_id, o.queryOutcome)
        failed == [skipped EXCEPT !.stage = "failed"]
        filter == [user_id |-> user_id, type |-> FACT]
        facts == key_facts(conversation_history)
        final_facts ==
            final_facts_of(store, user_id, conversation_history, o.queryOutcome)
    IN  IF conversation_history = << >> THEN skipped
        ELSE IF o.failure = "summarize" THEN failed
        ELSE IF facts = << >> THEN skipped
        ELSE IF o.failure = "dedup" THEN failed
        ELSE IF ~index
        THEN [skipped EXCEPT !.final = final_facts, !.existing = existing_texts]
        ELSE IF o.failure = "delete"
        THEN [failed EXCEPT !.calls = << Call("delete", NAMESPACE, filter, FALSE) >>,
                            !.final = final_facts, !.existing = existing_texts]
        ELSE LET cleared == IndexDeleteFilter(store, filter)
                 added == AddFacts(cleared, final_facts, user_id, o.outcomes, 1,
                                  Len(final_facts))
             IN  [store |-> added.store,
                  calls |-> << Call("delete", NAMESPACE, filter, TRUE) >>
                            \o added.calls,
                  stage |-> "replaced", final |-> final_facts,
                  existing |-> existing_texts]

----------------------------------------------------------------------------
(* Inputs of the operations *)

ShortMsg == "hi"
LongMsg == "should I move my savings into index funds this year"
AgentMsg == "ok"

\* the profiles the profile form and the callers of the store pass in
ProfileInputs ==
    {UserProfileSchema(u, "high", "technical", "concise") : u \in Users}
    \cup {DefaultProfile(u) : u \in Users}

\* conversation histories handed to consolidate_session
Histories == {<< >>, <<"hello">>, <<"be brief">>, <<"be brief", "index funds only">>}

Queries == {"", "likes concise answers", "funds"}

\* metadata arguments of add_memory: none (or empty), or naming the owner
Metadatas == {<< >>} \cup {[user_id |-> u] : u \in Users}

----------------------------------------------------------------------------
(* State machine: one action per operation *)

Done(op, user, arg, ret, calls) ==
    [op |-> op, user |-> user, arg |-> arg, ret |-> ret, calls |-> calls]

\* the sessions of the UI, each running the script in a thread of its own on the
\* one MemoryManager that load_components caches
Sessions == {1, 2}

\* st.session_state as the script initialises it (and after clear() and rerun)
NoSession == [user_id |-> NONE, authenticated |-> FALSE, is_new_user |-> FALSE]

\* a session that is not inside process_realtime_interaction
Idle == [pc |-> "idle", user |-> NONE, user_msg |-> "", agent_msg |-> "", tmp |-> << >>]

\* no call in progress.  base and group describe the latest group of calls that
\* overlapped in time: the buffers when its first call began and the arguments
\* of the calls begun in it, in the order they began; races counts the groups of
\* two
NoCalls ==
    [call |-> [t \in Sessions |-> Idle], base |-> << >>, group |-> << >>, races |-> 0]

Init ==
    /\ index \in BOOLEAN
    /\ active_context = << >>
    /\ memory_store = {}
    /\ user_profiles = {}
    /\ last = Done("init", NONE, NONE, NONE, << >>)
    /\ running = NoCalls
    /\ session = [t \in Sessions |-> NoSession]

\* a new process: MemoryManager.__init__ starts with an empty short-term buffer
Restart ==
    /\ active_context # << >>
    /\ active_context' = << >>
    /\ last' = Done("init", NONE, NONE, NONE, << >>)
    /\ running' = NoCalls
    /\ session' = [t \in Sessions |-> NoSession]
    /\ UNCHANGED <<index, memory_store, user_profiles>>

CheckUserStatus(u) ==
    \E fetchOk \in BOOLEAN :
        /\ last' = Done("check_user_status", u, fetchOk,
                        check_user_status(u, fetchOk), << >>)
        /\ UNCHANGED <<session, running, index, active_context, memory_store, user_profiles>>

GetProfile(u) ==
    \E fetchOk \in BOOLEAN :
        /\ last' = Done("get_profile", u, fetchOk, get_profile(u, fetchOk), << >>)
        /\ UNCHANGED <<session, running, index, active_context, memory_store, user_profiles>>

UpdateProfile(profile) ==
    \E upsertOk \in BOOLEAN :
        \E w \in {update_profile(user_profiles, profile, upsertOk)} :
            /\ user_profiles' = w.profiles
            /\ last' = Done("update_profile", profile.user_id, profile, NONE, w.calls)
            /\ UNCHANGED <<session, running, index, active_context, memory_store>>

SyncIfChanged(old_profile, current_profile) ==
    \E upsertOk \in BOOLEAN :
        \E w \in {sync_if_changed(user_profiles, old_profile, current_profile, upsertOk)} :
            /\ user_profiles' = w.profiles
            /\ last' = Done("sync_if_changed", current_profile.user_id,
                            <<old_profile, current_profile>>, w.ret, w.calls)
            /\ UNCHANGED <<session, running, index, active_context, memory_store>>

DeleteProfile(u) ==
    \E deleteOk \in BOOLEAN :
        \E w \in {delete_profile(user_profiles, u, deleteOk)} :
            /\ user_profiles' = w.profiles
            /\ last' = Done("delete_profile", u, NONE, NONE, w.calls)
            /\ UNCHANGED <<session, running, index, active_context, memory_store>>

GetImmediateContext(u, window_size) ==
    /\ last' = Done("get_immediate_context", u, window_size,
                    get_immediate_context(active_context, u, window_size), << >>)
    /\ UNCHANGED <<session, running, index, active_context, memory_store, user_profiles>>

ClearChatHistory(u) ==
    \E deleteOk \in BOOLEAN :
        \E w \in {clear_chat_history(active_context, memory_store, u, deleteOk)} :
            /\ active_context' = w.ctx
            /\ memory_store' = w.store
            /\ last' = Done("clear_chat_history", u, NONE, w.ret, w.calls)
            /\ UNCHANGED <<session, running, index, user_profiles>>

ResetMemory(u) ==
    \E memDeleteOk \in BOOLEAN, profDeleteOk \in BOOLEAN :
        \E w \in {reset_memory(active_context, user_profiles, memory_store, u,
                              memDeleteOk, profDeleteOk)} :
            /\ active_context' = w.ctx
            /\ user_profiles' = w.profiles
            /\ memory_store' = w.store
            /\ last' = Done("reset_memory", u,
                            IndexFetch(user_profiles, {u}) # {}, w.ret, w.calls)
            /\ UNCHANGED <<session, running, index>>

AddMemory(content, memory_type, metadata) ==
    \E outcome \in AddOutcomes :
        \E w \in {add_memory(memory_store, content, memory_type, metadata, outcome)} :
            /\ Cardinality(w.store) <= MaxVectors
            /\ memory_store' = w.store
            /\ last' = Done("add_memory",
                            IF "user_id" \in DOMAIN metadata
                            THEN metadata["user_id"] ELSE NONE,
                            <<content, memory_type>>, w.ret, w.calls)
            /\ UNCHANGED <<session, running, index, active_context, user_profiles>>

RetrieveRelevant(query, u, limit, memory_type, score_threshold) ==
    \E outcome \in QueryOutcomes :
        /\ last' = Done("retrieve_relevant", u, <<query, score_threshold>>,
                        retrieve_relevant(memory_store, query, u, limit, memory_type,
                                          score_threshold, outcome), << >>)
        /\ UNCHANGED <<session, running, index, active_context, memory_store, user_profiles>>

CheckAndUpdateProfilePrePlanning(u, user_query, deltas) ==
    \E fetchOk \in BOOLEAN, d \in DeltaOutcomes(deltas) :
        \E w \in {check_and_update_profile_pre_planning(
                     user_profiles, u, user_query, d @@ [fetchOk |-> fetchOk])} :
            /\ user_profiles' = w.profiles
            /\ last' = Done("check_and_update_profile_pre_planning", u, NONE, NONE,
                            w.calls)
            /\ UNCHANGED <<session, running, index, active_context, memory_store>>

ProcessRealtimeInteraction(u, user_msg, agent_msg, deltas) ==
    \E fetchOk \in BOOLEAN, d \in DeltaOutcomes(deltas), addOutcome \in AddOutcomes :
        \E w \in {process_realtime_interaction(
                     active_context, user_profiles, memory_store, u, user_msg,
                     agent_msg,
                     d @@ [fetchOk |-> fetchOk, addOutcome |-> addOutcome])} :
            /\ Cardinality(w.store) <= MaxVectors
            /\ active_context' = w.ctx
            /\ user_profiles' = w.profiles
            /\ memory_store' = w.store
            /\ last' = Done("process_realtime_interaction", u,
                            <<user_msg, agent_msg>>,
                            << d.analyzeOk,
                               IF Len(user_msg) + Len(agent_msg) > ArchiveThreshold
                               THEN addOutcome ELSE "ok" >>,
                            w.calls)
            /\ UNCHANGED <<session, running, index>>

\* the outcomes of n add_memory calls in a row: every combination for a short
\* list, the same outcome for all of a long one
AddOutcomeLists(n) ==
    IF n <= MaxMixed THEN [1..n -> AddOutcomes]
    ELSE {[i \in 1..n |-> o] : o \in AddOutcomes}

ConsolidateSession(u, conversation_history) ==
    \E failure \in ConsolidateFailures, queryOutcome \in QueryOutcomes :
    \E outcomes \in AddOutcomeLists(IF failure = "none"
                         THEN Len(final_facts_of(memory_store, u,
                                      conversation_history, queryOutcome))
                         ELSE 0) :
        \E w \in {consolidate_session(memory_store, u, conversation_history,
                     [failure |-> failure, queryOutcome |-> queryOutcome,
                      outcomes |-> outcomes])} :
            /\ Cardinality(w.store)
                   <= MaxVectors + Len(key_facts(conversation_history))
            /\ memory_store' = w.store
            /\ last' = Done("consolidate_session", u, conversation_history,
                            [stage |-> w.stage, final |-> w.final,
                             existing |-> w.existing], w.calls)
            /\ UNCHANGED <<session, running, index, active_context, user_profiles>>

----------------------------------------------------------------------------
(* process_realtime_interaction statement by statement, for calls of several
   sessions that run at the same time.  A thread switch can fall between any two
   statements; each statement looks the buffer up again in _active_context. *)

\* self._active_context[user_id] = []
create_buffer(ctx, user_id) ==
    [u \in DOMAIN ctx \cup {user_id} |-> IF u = user_id THEN << >> ELSE ctx[u]]

\* an append that puts the turn in front
append_turn_front(ctx, user_id, turn) ==
    [ctx EXCEPT ![user_id] = << turn >> \o @]

\* self._active_context[user_id].append(turn)
append_turn(ctx, user_id, turn) ==
    [ctx EXCEPT ![user_id] = Append(@, turn)]

\* the call of session t moves to statement pc
Goto(t, pc) ==
    [running EXCEPT !.call[t].pc = pc]

\* the call of session t ends
Ended(t) ==
    [running EXCEPT !.call[t] = Idle]

\* _active_context[user_id] of a user without buffer raises KeyError, which no
\* try block of process_realtime_interaction covers
RaiseKeyError(t) ==
    LET c == running.call[t]
    IN  /\ running' = Ended(t)
        /\ last' = Done("process_realtime_interaction", c.user,
                        <<c.user_msg, c.agent_msg>>, "KeyError", << >>)
        /\ UNCHANGED <<session, index, active_context, memory_store, user_profiles>>

\* session t calls process_realtime_interaction(u, user_msg, agent_msg) with
\* non-empty messages, alone or while the call of one other session is running
Begin(t, u, user_msg, agent_msg) ==
    LET overlaps == \E x \in Sessions \ {t} : running.call[x].pc # "idle"
    IN  /\ running.call[t].pc = "idle"
        /\ user_msg # "" /\ agent_msg # ""
        /\ overlaps => (Len(running.group) = 1 /\ running.races < MaxRaces)
        /\ running' =
               [call |-> [running.call EXCEPT ![t] =
                              [pc |-> "check", user |-> u, user_msg |-> user_msg,
                               agent_msg |-> agent_msg, tmp |-> << >>]],
                base |-> IF overlaps THEN running.base ELSE active_context,
                group |-> (IF overlaps THEN running.group ELSE << >>)
                              \o << <<u, user_msg, agent_msg>> >>,
                races |-> IF overlaps THEN running.races + 1 ELSE running.races]
        /\ UNCHANGED <<session, index, active_context, memory_store, user_profiles, last>>

\* if user_id not in self._active_context:
CheckAbsent(t) ==
    /\ running.call[t].pc = "check"
    /\ running' = Goto(t, IF running.call[t].user \in DOMAIN active_context
                          THEN "append_user" ELSE "create")
    /\ UNCHANGED <<session, index, active_context, memory_store, user_profiles, last>>

\* self._active_context[user_id] = []
CreateBuffer(t) ==
    /\ running.call[t].pc = "create"
    /\ active_context' = create_buffer(active_context, running.call[t].user)
    /\ running' = Goto(t, "append_user")
    /\ UNCHANGED <<session, index, memory_store, user_profiles, last>>

\* the two appends, the user turn and then the agent turn
AppendTurn(t) ==
    LET c == running.call[t]
    IN  /\ c.pc \in {"append_user", "append_agent"}
        /\ IF c.user \notin DOMAIN active_context THEN RaiseKeyError(t)
           ELSE /\ active_context' =
                       append_turn(active_context, c.user,
                                   IF c.pc = "append_user"
                                   THEN Turn("user", c.user_msg)
                                   ELSE Turn("agent", c.agent_msg))
                /\ running' = Goto(t, IF c.pc = "append_user" THEN "append_agent"
                                      ELSE "len_check")
                /\ UNCHANGED <<session, index, memory_store, user_profiles, last>>

\* if len(self._active_context[user_id]) > 20:
LenCheck(t) ==
    LET c == running.call[t]
    IN  /\ c.pc = "len_check"
        /\ IF c.user \notin DOMAIN active_context THEN RaiseKeyError(t)
           ELSE /\ running' = Goto(t, IF Len(active_context[c.user]) > BufferCap
                                      THEN "slice" ELSE "delta")
                /\ UNCHANGED <<session, index, active_context, memory_store, user_profiles,
                               last>>

\* the right-hand side of the trim: self._active_context[user_id][-20:]
Slice(t) ==
    LET c == running.call[t]
    IN  /\ c.pc = "slice"
        /\ IF c.user \notin DOMAIN active_context THEN RaiseKeyError(t)
           ELSE /\ running' = [running EXCEPT
                                   !.call[t].pc = "assign",
                                   !.call[t].tmp =
                                       LastN(active_context[c.user], BufferCap)]
                /\ UNCHANGED <<session, index, active_context, memory_store, user_profiles,
                               last>>

\* the assignment of the trim: self._active_context[user_id] = <the slice>
Assign(t) ==
    LET c == running.call[t]
    IN  /\ c.pc = "assign"
        /\ active_context' =
               [u \in DOMAIN active_context \cup {c.user} |->
                    IF u = c.user THEN c.tmp ELSE active_context[u]]
        /\ running' = Goto(t, "delta")
        /\ UNCHANGED <<session, index, memory_store, user_profiles, last>>

\* steps 2 and 3 of the call, the profile delta and the archival, and its return
DeltaAndArchive(t, deltas) ==
    LET c == running.call[t]
    IN  /\ c.pc = "delta"
        /\ \E fetchOk \in BOOLEAN, d \in DeltaOutcomes(deltas),
              addOutcome \in AddOutcomes :
             \E w \in {process_realtime_interaction(
                          active_context, user_profiles, memory_store, c.user,
                          c.user_msg, c.agent_msg,
                          d @@ [fetchOk |-> fetchOk, addOutcome |-> addOutcome])} :
                 /\ Cardinality(w.store) <= MaxVectors
                 /\ user_profiles' = w.profiles
                 /\ memory_store' = w.store
                 /\ last' = Done("process_realtime_interaction", c.user,
                                 <<c.user_msg, c.agent_msg>>,
                                 << d.analyzeOk,
                                    IF Len(c.user_msg) + Len(c.agent_msg)
                                           > ArchiveThreshold
                                    THEN addOutcome ELSE "ok" >>,
                                 w.calls)
        /\ running' = Ended(t)
        /\ UNCHANGED <<session, index, active_context>>

----------------------------------------------------------------------------
(* The login screen of the UI *)

\* login_user(user_id, is_new_declared) in session t, shown while the session is
\* not authenticated; the result recorded is the status found, or "rejected"
LoginUser(t, user_id, is_new_declared) ==
    \E fetchOk \in BOOLEAN :
        LET status == check_user_status(user_id, fetchOk)
            rejected == \/ user_id = ""
                        \/ is_new_declared /\ status = "old"
                        \/ ~is_new_declared /\ status = "new"
        IN  /\ ~session[t].authenticated
            /\ session' =
                   IF rejected THEN session
                   ELSE [session EXCEPT ![t] =
                             [user_id |-> user_id,
                              authenticated |-> ~is_new_declared,
                              is_new_user |-> is_new_declared]]
            /\ last' = Done("login_user", user_id, is_new_declared,
                            IF rejected THEN "rejected" ELSE status, << >>)
            /\ UNCHANGED <<index, active_context, memory_store, user_profiles,
                           running>>

\* save_profile(risk, depth, style) in session t, from the profile form shown to a
\* declared-new user who is not yet authenticated
SaveProfile(t, risk, depth, style) ==
    \E upsertOk \in BOOLEAN :
        \E w \in {update_profile(user_profiles,
                     UserProfileSchema(session[t].user_id, risk, depth, style),
                     upsertOk)} :
            /\ session[t].is_new_user /\ ~session[t].authenticated
            /\ user_profiles' = w.profiles
            /\ session' = [session EXCEPT ![t].authenticated = TRUE]
            /\ last' = Done("save_profile", session[t].user_id,
                            UserProfileSchema(session[t].user_id, risk, depth, style),
                            TRUE, w.calls)
            /\ UNCHANGED <<index, active_context, memory_store, running>>

\* the Logout button of the chat screen: st.session_state.clear() and rerun
Logout(t) ==
    /\ session[t].authenticated
    /\ session' = [session EXCEPT ![t] = NoSession]
    /\ last' = Done("logout", session[t].user_id, NONE, NONE, << >>)
    /\ UNCHANGED <<index, active_context, memory_store, user_profiles, running>>

----------------------------------------------------------------------------
(* Specifications *)

\* Spec: the operations of MemoryManager that change state, with the profile
\* form of the UI and the profile read, for two users with one input of each kind
\* and one exchange per user and session (SpecBuffer has the longer sessions)
OneDelta == {<< >>, [risk_tolerance |-> "low"]}
FormProfiles == {UserProfileSchema(u, "high", "technical", "concise") : u \in Users}

Next ==
    \/ Restart
    \/ \E u \in Users : GetProfile(u)
    \/ \E p \in FormProfiles : UpdateProfile(p)
    \/ \E u \in Users : ClearChatHistory(u)
    \/ \E u \in Users : ResetMemory(u)
    \/ \E u \in Users : CheckAndUpdateProfilePrePlanning(u, ShortMsg, OneDelta)
    \/ \E u \in Users :
           /\ u \notin DOMAIN active_context
           /\ ProcessRealtimeInteraction(u, LongMsg, AgentMsg, OneDelta)
    \/ \E u \in Users : ConsolidateSession(u, <<"be brief">>)

Spec == Init /\ [][Next]_vars

\* SpecProfile: the profile store and its callers, over every profile input
NextProfile ==
    \/ \E u \in Users : CheckUserStatus(u)
    \/ \E u \in Users : GetProfile(u)
    \/ \E p \in ProfileInputs : UpdateProfile(p)
    \/ \E old \in ProfileInputs, new \in ProfileInputs : SyncIfChanged(old, new)
    \/ \E u \in Users : DeleteProfile(u)
    \/ \E u \in Users, q \in {"", ShortMsg} :
           CheckAndUpdateProfilePrePlanning(u, q, Deltas)
    \/ \E u \in Users : ResetMemory(u)

SpecProfile == Init /\ [][NextProfile]_vars

\* SpecMemory: the long-term memory operations, over every memory input
NextMemory ==
    \/ \E c \in {"", "likes concise answers"}, t \in MemoryType, m \in Metadatas :
           AddMemory(c, t, m)
    \/ \E q \in Queries, u \in Users, t \in MemoryType \cup {NONE} :
           RetrieveRelevant(q, u, DefaultLimit, t, DefaultScoreThreshold)
    \/ \E u \in Users : RetrieveRelevant("funds", u, 1, FACT, 0)
    \/ \E u \in Users, h \in Histories : ConsolidateSession(u, h)
    \/ \E u \in Users : ClearChatHistory(u)
    \/ \E u \in Users : ResetMemory(u)

SpecMemory == Init /\ [][NextMemory]_vars

\* SpecBuffer: the short-term buffer of one user, over every message input
NextBuffer ==
    \/ Restart
    \/ \E x \in {<<"", AgentMsg>>, <<ShortMsg, "">>, <<ShortMsg, AgentMsg>>,
                  <<LongMsg, AgentMsg>>} :
           ProcessRealtimeInteraction("alice_01", x[1], x[2], {<< >>})
    \/ \E w \in {0, 1, DefaultWindow} : GetImmediateContext("alice_01", w)
    \/ ClearChatHistory("alice_01")

SpecBuffer == Init /\ [][NextBuffer]_vars

\* SpecLimit: consolidation of short and long sessions
NextLimit ==
    \/ \E u \in Users, h \in {<<"be brief">>, <<"long session">>} :
           ConsolidateSession(u, h)
    \/ \E u \in Users : ResetMemory(u)

SpecLimit == Init /\ [][NextLimit]_vars

\* SpecRace: two sessions of one user whose calls of
\* process_realtime_interaction run statement by statement, alone or overlapping
NextRace ==
    \E t \in Sessions :
        \/ Begin(t, "alice_01", ShortMsg, AgentMsg)
        \/ CheckAbsent(t)
        \/ CreateBuffer(t)
        \/ AppendTurn(t)
        \/ LenCheck(t)
        \/ Slice(t)
        \/ Assign(t)
        \/ DeltaAndArchive(t, {<< >>})

SpecRace == Init /\ [][NextRace]_vars

\* SpecLogin: one browser session that logs in, registers and logs out
NextLogin ==
    \/ \E u \in Users \cup {""}, is_new_declared \in BOOLEAN :
           LoginUser(1, u, is_new_declared)
    \/ \E r \in {"medium", "high"}, s \in {"formal", "concise"} :
           SaveProfile(1, r, "detailed", s)
    \/ Logout(1)

SpecLogin == Init /\ [][NextLogin]_vars

----------------------------------------------------------------------------
(* Properties of the long-term memory (SpecMemory) *)

Range(list) == {list[i] : i \in 1..Len(list)}

\* the FACT vectors a user owns
FactsOf(store, u) ==
    {v \in store : Matches(v.metadata, [user_id |-> u, type |-> FACT])}

\* C1: an add_memory call of type FACT or EPISODIC whose metadata has no user_id
\* returns None and issues no index call; so every stored vector names its owner.
C1_NoOwnerNoWrite ==
    /\ (last.op = "add_memory" /\ last.user = NONE /\ last.arg[2] \in {FACT, EPISODIC})
           => (last.ret = NONE /\ last.calls = << >>)
    /\ \A v \in memory_store : "user_id" \in DOMAIN v.metadata

\* a call with content that the isolation check alone rejects
C1_Witness ==
    /\ index
    /\ last.op = "add_memory" /\ last.user = NONE /\ last.arg[1] # ""
    /\ last.ret = NONE

\* C2: every item retrieve_relevant returns is a stored vector whose metadata
\* user_id is the user asked for and whose score reaches the threshold.
C2_OnlyOwnAboveThreshold ==
    last.op = "retrieve_relevant" =>
        \A i \in 1..Len(last.ret) :
            /\ "user_id" \in DOMAIN last.ret[i].metadata
            /\ last.ret[i].metadata["user_id"] = last.user
            /\ \E v \in memory_store :
                   /\ v.id = last.ret[i].id
                   /\ "user_id" \in DOMAIN v.metadata
                   /\ v.metadata["user_id"] = last.user
                   /\ Score(get_embedding(last.arg[1]), v.values) >= last.arg[2]

\* a retrieval that returned an item while another user's vector scored as well
C2_Witness ==
    /\ last.op = "retrieve_relevant" /\ Len(last.ret) > 0
    /\ \E v \in memory_store :
           /\ v.metadata["user_id"] # last.user
           /\ Score(get_embedding(last.arg[1]), v.values) >= last.arg[2]

\* the texts of the FACT vectors a user owns
FactTexts(store, u) == {v.metadata.text : v \in FactsOf(store, u)}

\* the store holds exactly the facts of the list for the user, each once
StoresExactly(store, u, list) ==
    /\ Cardinality(FactsOf(store, u)) = Len(list)
    /\ FactTexts(store, u) = Range(list)
    /\ Cardinality(Range(list)) = Len(list)

\* a consolidate_session that reached its replace step with no failing call:
\* the deletion and one upsert per final fact, all of them answered
Replaced(l) ==
    /\ l.op = "consolidate_session"
    /\ l.ret.stage = "replaced"
    /\ Len(l.calls) = 1 + Len(l.ret.final)
    /\ \A i \in 1..Len(l.calls) : l.calls[i].ok

----------------------------------------------------------------------------
(* Properties of the profile store (SpecProfile) *)

\* the user has a profile record
HasProfile(profiles, u) == IndexFetch(profiles, {u}) # {}

\* the profile the user's record holds
StoredProfile(profiles, u) ==
    model_validate(safe_json_load(
        (CHOOSE v \in profiles : v.id = u).metadata.profile_data))

\* C4 as claimed: sync_if_changed issues exactly one upsert whenever the two
\* profiles differ, and none when they are equal.
C4_OneUpsertIffDiffer ==
    last.op = "sync_if_changed" =>
        Len(last.calls) = (IF last.arg[1] = last.arg[2] THEN 0 ELSE 1)

\* C4, amended: equal profiles issue no index call; differing profiles issue,
\* when the index is available, exactly one upsert, keyed by the new profile's
\* user id in the profile namespace, and what it stores is the new profile;
\* with no index they issue none.
C4_OneUpsertIffDifferAndIndex ==
    last.op = "sync_if_changed" =>
        IF last.arg[1] = last.arg[2] \/ ~index
        THEN last.calls = << >>
        ELSE /\ Len(last.calls) = 1
             /\ last.calls[1].fn = "upsert"
             /\ last.calls[1].ns = PROFILE_NAMESPACE
             /\ last.calls[1].key = last.arg[2].user_id
             /\ last.calls[1].ok =>
                    /\ HasProfile(user_profiles, last.arg[2].user_id)
                    /\ StoredProfile(user_profiles, last.arg[2].user_id) = last.arg[2]

\* a sync of two differing profiles of one user whose upsert replaced the
\* record that held the old one
C4_Witness ==
    /\ last.op = "sync_if_changed" /\ index
    /\ last.arg[1].user_id = last.arg[2].user_id
    /\ last.arg[1].risk_tolerance # last.arg[2].risk_tolerance
    /\ Len(last.calls) = 1 /\ last.calls[1].ok
    /\ StoredProfile(user_profiles, last.user) = last.arg[2]

\* C5: sync_if_changed returns true exactly when this call persisted the new
\* profile (an upsert was issued and returned).
C5_TrueIffPersisted ==
    last.op = "sync_if_changed" =>
        (last.ret <=> (Len(last.calls) = 1 /\ last.calls[1].ok))

\* a profile was created: update_profile issued its upsert and it returned
Created(l) ==
    l.op = "update_profile" /\ Len(l.calls) = 1 /\ l.calls[1].ok

\* C10 as claimed: right after a profile was created, get_profile returns exactly
\* its values and check_user_status returns "old".
C10_CreatedThenOld ==
    [][ (Created(last) /\ last'.user = last.user) =>
          /\ last'.op = "get_profile" => last'.ret = last.arg
          /\ last'.op = "check_user_status" => last'.ret = "old"
      ]_vars

\* C10, amended: with no profile record check_user_status returns "new"; once
\* update_profile has stored a profile, get_profile returns exactly the stored
\* values and check_user_status returns "old" whenever their fetch succeeds (a
\* failing fetch gives the default profile and "new"); the record stays until a
\* delete_profile or reset_memory of that user, and keeps its values until a
\* later profile write for that user.
C10_Lifecycle ==
    [][ /\ last'.op = "check_user_status" =>
              last'.ret = (IF last'.arg /\ HasProfile(user_profiles', last'.user)
                           THEN "old" ELSE "new")
        /\ last'.op = "get_profile" =>
              last'.ret = (IF last'.arg /\ HasProfile(user_profiles', last'.user)
                           THEN StoredProfile(user_profiles', last'.user)
                           ELSE DefaultProfile(last'.user))
        /\ Created(last') =>
              /\ HasProfile(user_profiles', last'.user)
              /\ StoredProfile(user_profiles', last'.user) = last'.arg
        /\ \A u \in Users :
              HasProfile(user_profiles, u) =>
                  /\ ~HasProfile(user_profiles', u) =>
                         (last'.op \in {"delete_profile", "reset_memory"}
                          /\ last'.user = u)
                  /\ (/\ HasProfile(user_profiles', u)
                      /\ StoredProfile(user_profiles', u) # StoredProfile(user_profiles, u))
                         => (last'.op \in {"update_profile", "sync_if_changed",
                                           "check_and_update_profile_pre_planning"}
                             /\ last'.user = u)
      ]_vars

\* a status lookup that found a profile whose values are not the defaults
C10_Witness ==
    /\ last.op = "check_user_status" /\ last.ret = "old"
    /\ StoredProfile(user_profiles, last.user) # DefaultProfile(last.user)

----------------------------------------------------------------------------
(* Properties of reset and clear (Spec) *)

\* the index call of reset_memory that deletes the profile record returned
ProfileDeleted(l) ==
    l.op = "reset_memory" /\ l.calls # << >> /\ l.calls[Len(l.calls)].ok

C7_FalseOnFailedDeletion ==
    last.op = "reset_memory" =>
        (last.ret <=> \A i \in 1..Len(last.calls) : last.calls[i].ok)

\* the episodic vectors a user owns
EpisodesOf(store, u) ==
    {v \in store : Matches(v.metadata, [user_id |-> u, type |-> EPISODIC])}

\* C8: clear_chat_history(u) drops u's buffer; every vector it removes is an
\* EPISODIC vector of u (all of them when it returns true); profiles, FACT
\* vectors, and the vectors and buffers of other users stay as they are.
C8_ClearFrame ==
    [][ last'.op = "clear_chat_history" =>
          LET u == last'.user
          IN  /\ u \notin DOMAIN active_context'
              /\ \A x \in Users \ {u} :
                     /\ (x \in DOMAIN active_context') = (x \in DOMAIN active_context)
                     /\ History(active_context', x) = History(active_context, x)
              /\ user_profiles' = user_profiles
              /\ memory_store' \subseteq memory_store
              /\ memory_store \ memory_store' \subseteq EpisodesOf(memory_store, u)
              /\ last'.ret => EpisodesOf(memory_store', u) = {}
      ]_vars

\* a successful clear that left the user's FACT and profile, and another user's
\* episode, in place
C8_Witness ==
    /\ last.op = "clear_chat_history" /\ last.ret
    /\ FactsOf(memory_store, last.user) # {}
    /\ HasProfile(user_profiles, last.user)
    /\ \E x \in Users \ {last.user} : x \in DOMAIN active_context

----------------------------------------------------------------------------
(* Properties of the short-term buffer (SpecBuffer) *)

\* C3: a user's buffer never holds more than 20 entries, and after a
\* process_realtime_interaction it is the end of the old buffer followed by the
\* two new turns: the most recent entries, in their order.
C3_BufferCapped ==
    [][ \A u \in DOMAIN active_context' :
          /\ Len(active_context'[u]) <= BufferCap
          /\ (last'.op = "process_realtime_interaction" /\ last'.user = u
              /\ last'.arg[1] # "" /\ last'.arg[2] # "")
                 => LET grown == History(active_context, u)
                                     \o << Turn("user", last'.arg[1]),
                                           Turn("agent", last'.arg[2]) >>
                        new == active_context'[u]
                        cut == Len(grown) - Len(new)
                    IN  /\ Len(new) = (IF Len(grown) < BufferCap THEN Len(grown)
                                       ELSE BufferCap)
                        /\ \A i \in 1..Len(new) : new[i] = grown[cut + i]
      ]_vars

\* a full buffer that holds both kinds of exchange
C3_Witness ==
    /\ last.op = "process_realtime_interaction"
    /\ Len(History(active_context, last.user)) = BufferCap
    /\ active_context[last.user][1].content = LongMsg
    /\ active_context[last.user][BufferCap - 1].content = ShortMsg

----------------------------------------------------------------------------
(* Properties of the realtime steps (Spec) *)

\* the exchange of a process_realtime_interaction qualifies for archival
Qualifies(l) ==
    /\ l.op = "process_realtime_interaction"
    /\ l.arg[1] # "" /\ l.arg[2] # ""
    /\ Len(l.arg[1]) + Len(l.arg[2]) > ArchiveThreshold

\* C11: the steps of process_realtime_interaction do not block each other: when
\* the profile-delta step fails and embedding and upsert work, the buffer still
\* gets the two turns and the qualifying exchange is archived as an EPISODIC
\* memory of the user.
C11_DeltaFailureStillArchives ==
    [][ (Qualifies(last') /\ ~last'.ret[1] /\ last'.ret[2] = "ok")
           => /\ Len(History(active_context', last'.user)) >= 2
              /\ index => \E v \in memory_store' \ memory_store :
                              Matches(v.metadata,
                                      [user_id |-> last'.user, type |-> EPISODIC])
      ]_vars

----------------------------------------------------------------------------
(* Properties of the context rendering (SpecBuffer) *)

\* the role-labelled line of a buffer entry
Line(turn) ==
    (IF turn.role = "user" THEN "User" ELSE "Agent") \o ": " \o turn.content

\* the lines of the last n entries of a buffer (all of them when fewer exist,
\* none for n = 0), in order
LastLines(history, n) ==
    LET k == IF n < Len(history) THEN n ELSE Len(history)
    IN  [i \in 1..k |-> Line(history[Len(history) - k + i])]

\* C12: get_immediate_context(u, w) renders exactly the last w entries of u's
\* buffer (all when fewer exist, none when w = 0) as role-labelled lines in
\* order, returns "" for a user without history, and changes no state.
C12_RendersLastWindow ==
    [][ last'.op = "get_immediate_context" =>
          /\ last'.ret = Join(LastLines(History(active_context, last'.user), last'.arg))
          /\ UNCHANGED <<index, active_context, memory_store, user_profiles>>
      ]_vars

----------------------------------------------------------------------------
(* Properties of the fact limit (SpecLimit) *)

\* C13: no user ever owns more than 25 stored FACT memories.
C13_AtMostFactLimit ==
    \A u \in Users : Cardinality(FactsOf(memory_store, u)) <= FactLimit

----------------------------------------------------------------------------
(* Properties of overlapping calls (SpecRace) *)

\* no call of process_realtime_interaction is in progress
AllIdle == \A t \in Sessions : running.call[t].pc = "idle"

\* the buffers after the calls of `group` ran one after the other on `ctx`
RECURSIVE Serially(_, _)
Serially(ctx, group) ==
    IF group = << >> THEN ctx
    ELSE Serially(AppendTurns(ctx, group[1][1], group[1][2], group[1][3]),
                  Tail(group))

\* the results of the serial orders of the latest group of calls
SerialResults ==
    {Serially(running.base, running.group),
     Serially(running.base, [i \in 1..Len(running.group) |->
                                 running.group[Len(running.group) + 1 - i]])}

\* C14: the buffer is not synchronised.  A call that overlaps no other leaves the
\* buffers of the serial semantics, and two overlapping calls of one user lose or
\* reorder turns but add none: only overlapping calls end with a buffer that no
\* serial order gives (the witness is such an end).
C14_OnlyOverlapBreaksSerial ==
    AllIdle =>
        /\ Len(running.group) = 1 => active_context \in SerialResults
        /\ Len(running.group) = 2 =>
              \A s \in SerialResults : \A u \in DOMAIN s :
                  /\ u \in DOMAIN active_context
                  /\ Len(active_context[u]) <= Len(s[u])
                  /\ active_context[u] # << >>

\* two overlapping calls of one user have returned and the buffer holds fewer
\* turns than either serial order leaves
C14_Witness ==
    /\ AllIdle /\ Len(running.group) = 2
    /\ running.group[1][1] = running.group[2][1]
    /\ active_context \notin SerialResults
    /\ \A s \in SerialResults :
           Len(active_context[running.group[1][1]]) < Len(s[running.group[1][1]])

----------------------------------------------------------------------------
(* User isolation (Spec) *)

\* the vectors of the memory namespace a user owns
VectorsOf(store, u) == {v \in store : Matches(v.metadata, [user_id |-> u])}

\* the operations of MemoryManager that write
ManagerWrites ==
    {"process_realtime_interaction", "check_and_update_profile_pre_planning",
     "consolidate_session", "clear_chat_history", "reset_memory"}

\* C15: an operation of MemoryManager invoked for user A leaves the buffer, the
\* FACT and EPISODIC vectors and the profile record of every other user B as they
\* were, and with them what B retrieves.
C15_OthersUntouched ==
    [][ last'.op \in ManagerWrites =>
          \A b \in Users \ {last'.user} :
              /\ (b \in DOMAIN active_context') = (b \in DOMAIN active_context)
              /\ History(active_context', b) = History(active_context, b)
              /\ VectorsOf(memory_store', b) = VectorsOf(memory_store, b)
              /\ IndexFetch(user_profiles', {b}) = IndexFetch(user_profiles, {b})
              /\ memory_store' # memory_store =>
                     retrieve_relevant(memory_store', "funds", b, DefaultLimit, NONE,
                                       0, "ok")
                         = retrieve_relevant(memory_store, "funds", b, DefaultLimit,
                                             NONE, 0, "ok")
      ]_vars

\* a reset of one user, all deletions done, with the buffer, a vector and the
\* profile of another user in place
C15_Witness ==
    /\ last.op = "reset_memory" /\ last.arg /\ ProfileDeleted(last)
    /\ \E b \in Users \ {last.user} :
           /\ b \in DOMAIN active_context
           /\ VectorsOf(memory_store, b) # {}
           /\ HasProfile(user_profiles, b)

----------------------------------------------------------------------------
(* Properties of the fact replacement (SpecMemory) *)

\* consolidate_session issued its scoped FACT deletion
DeletionIssued(l) ==
    /\ l.op = "consolidate_session"
    /\ l.calls # << >> /\ l.calls[1].fn = "delete"

\* C16: whenever consolidate_session issues the scoped FACT deletion, the list
\* of existing facts it gave to deduplicate_facts contained every FACT stored
\* for the user at that time.
C16_DeletesOnlyWhatDedupSaw ==
    [][ DeletionIssued(last') =>
          FactTexts(memory_store, last'.user) \subseteq Range(last'.ret.existing)
      ]_vars

----------------------------------------------------------------------------
(* Properties of the login flow (SpecLogin) *)

\* C17: a registration never overwrites a profile: the upsert of save_profile
\* for a user id is carried out only when no profile record exists for that id.
C17_RegistrationNeverOverwrites ==
    [][ (last'.op = "save_profile" /\ last'.calls # << >> /\ last'.calls[1].ok)
            => ~HasProfile(user_profiles, last'.user) ]_vars

====
